---- MODULE Spec2Model ----
(***************************************************************************)
(* EarthEngineLayer (modules/earthengine-layers/src/earth-engine-layer.js) *)
(* as a state machine: the module-level accessToken, each layer's props    *)
(* and state, the updateState calls in flight (one record per call, with   *)
(* the await it is suspended at) and the getTileData calls in flight.      *)
(* Every await of the source is a point where other calls may run.         *)
(***************************************************************************)
EXTENDS Integers, Sequences, FiniteSets, TLC

\* ------------------------------------------------------------------ bounds
\* updateState calls per behaviour in the descriptor scenario
MaxCycles == 2
\* updateState calls per behaviour in the session scenario
MaxSessionCycles == 3
\* updateState calls per behaviour in the tile scenario
MaxTileCycles == 2
\* getTileData calls per behaviour in the tile scenario
MaxTiles == 2
\* updateState and getTileData calls per behaviour in the single tile scenario
MaxOneTileCycles == 1
MaxOneTileTiles == 1
\* the tallest filmstrip thumbnail is MaxFrames tiles high
MaxFrames == 2
\* updateState calls per behaviour in the animation scenario
MaxTicks == 6
\* the longest url template, in pieces, and the getTileData calls per
\* behaviour in the template scenario
MaxTemplateLen == 3
MaxTemplateTiles == 1
\* updateState calls per behaviour in the normalization scenario
MaxNormalizeCycles == 2
\* getTileData calls per behaviour in the sibling tiles scenario
MaxSiblingTiles == 2
\* updateState and getTileData calls per behaviour in the frame scenario
MaxFrameCycles == 2
MaxFrameTiles == 1

\* ------------------------------------------------------- program constants
TILE_SIZE == 256
DefaultAnimationSpeed == 12

\* ------------------------------------------------------------------ values
\* props.token: null (the default) or a string
NoToken == "null"
Tokens == {"T1", "T2"}

\* props.eeObject as the application passes it.  Two values are === exactly
\* when they are the same record (each object has its own id).
UndefinedRef == [type |-> "undefined", id |-> "-", kind |-> "-"]
NullRef == [type |-> "null", id |-> "-", kind |-> "-"]
EmptyArray == [type |-> "array", id |-> "-", kind |-> "-"]
EEObj(id, kind) == [type |-> "object", id |-> id, kind |-> kind]
EEJson(id, kind) == [type |-> "string", id |-> id, kind |-> kind]

\* state.eeObject: an ee handle, null or undefined
UndefHandle == [id |-> "-", kind |-> "undefined"]
NullHandle == [id |-> "-", kind |-> "null"]
ArrayHandle == [id |-> "-", kind |-> "Array"]
Truthy(h) == h.kind \notin {"undefined", "null"}

\* The methods an ee object of each kind has (ee.Image, ee.ImageCollection,
\* ee.FeatureCollection have getMap; only ee.ImageCollection has
\* getFilmstripThumbURL; ee.Geometry and arrays have neither).
HasGetMap(h) == h.kind \in {"Image", "ImageCollection", "FeatureCollection"}
HasGetFilmstripThumbURL(h) == h.kind = "ImageCollection"

\* props.visParams: ref is the object's identity, content what it holds
VisUndefined == [ref |-> "undefined", content |-> "undefined"]
VisNull == [ref |-> "null", content |-> "null"]
Vis(ref, content) == [ref |-> ref, content |-> content]
\* === on two visParams values
StrictEqual(a, b) == a.ref = b.ref
\* utils deepEqual, the comparator defaultProps declares for visParams
deepEqual(a, b) == a.content = b.content

\* oldProps of a layer's first updateState: no prop is defined
EmptyProps ==
  [token |-> "undefined", eeObject |-> UndefinedRef, visParams |-> VisUndefined,
   animate |-> FALSE, animationSpeed |-> DefaultAnimationSpeed]

MkProps(token, eeObject, visParams, animate) ==
  [token |-> token, eeObject |-> eeObject, visParams |-> visParams,
   animate |-> animate, animationSpeed |-> DefaultAnimationSpeed]

\* What getMap answers for a handle and visParams: the map id names both,
\* the url format is the tile template under that map id.
UndefMapId == [obj |-> "-", vis |-> "-"]
MapIdOf(h, vis) == [obj |-> h.id, vis |-> vis.content]
UndefUrlFormat == [mapid |-> UndefMapId, path |-> <<>>]
UrlFormatOf(h, vis) == [mapid |-> MapIdOf(h, vis), path |-> <<"{z}", "{x}", "{y}">>]

\* state.nFrames = image.height / TILE_SIZE, kept exactly: n whole frames and
\* rem / TILE_SIZE of a frame.  n = -1 stands for undefined.
UndefFrames == [n |-> -1, rem |-> 0]
FramesOf(height) == [n |-> height \div TILE_SIZE, rem |-> height % TILE_SIZE]
\* !nFrames
NoFrames(nf) == nf = UndefFrames \/ (nf.n = 0 /\ nf.rem = 0)
\* state.frame: -1 stands for undefined
UndefFrame == -1

\* initializeState: this.state = {}
EmptyState ==
  [eeObject |-> UndefHandle, mapid |-> UndefMapId, urlFormat |-> UndefUrlFormat,
   renderMethod |-> "undefined", nFrames |-> UndefFrames, frame |-> UndefFrame]

NoReq == [eeObject |-> UndefHandle, visParams |-> VisUndefined, renderMethod |-> "undefined"]

\* The record of an updateState call that has returned (pc "done") or thrown
\* (pc "rejected", with the error): its arguments and locals are gone.
Settled(call, pc, err) ==
  [layer |-> call.layer, props |-> EmptyProps, oldProps |-> EmptyProps,
   dataChanged |-> FALSE, pc |-> pc, err |-> err, req |-> NoReq]

VARIABLES
  accessToken,  \* the module-level token of the last successful initialize
  initCalls,    \* eeApi.initialize calls made so far, per token
  props,        \* props[l]: the current props of layer l (this.props)
  state,        \* state[l]: this.state of layer l
  cycles,       \* the updateState calls made so far, in call order
  tiles         \* the getTileData calls made so far, in call order

vars == <<accessToken, initCalls, props, state, cycles, tiles>>

AllLayers == {"L1", "L2"}

Init ==
  /\ accessToken = "undefined"
  /\ initCalls = [t \in Tokens |-> 0]
  /\ props = [l \in AllLayers |-> EmptyProps]
  /\ state = [l \in AllLayers |-> EmptyState]
  /\ cycles = <<>>
  /\ tiles = <<>>

\* --------------------------------------------------------------- scheduling
\* updateState call c is resuming from an await whose promise has settled:
\* after await this._updateToken(...) or after await
\* this._updateEEVisParams(...).  Such a continuation is a microtask: it runs
\* before any later task, that is before a network call completes and before
\* the layer's next updateState.
Resuming(c) == cycles[c].pc \in {"afterToken", "afterVisParams"}

\* getTileData call t is resuming from await-ing Promise.all(slices), all of
\* whose promises have resolved
Returning(t) ==
  /\ tiles[t].pc = "slices"
  /\ \A k \in 1..Len(tiles[t].slices) : tiles[t].slices[k].resolved

\* no continuation is waiting to run: the next task may start
TaskMayStart ==
  /\ \A c \in DOMAIN cycles : ~Resuming(c)
  /\ \A t \in DOMAIN tiles : ~Returning(t)

\* no continuation of layer l's updateState calls is waiting to run
LayerMayUpdate(l) == \A c \in DOMAIN cycles : cycles[c].layer = l => ~Resuming(c)

\* ------------------------------------------------------------ _updateToken
\* (a variant without the comparison with accessToken: if (!props.token) return;)
TokenIsAbsent(token, marker) == token = NoToken

\* if (!props.token || props.token === accessToken) return;
TokenIsCurrent(token, marker) == token = NoToken \/ token = marker

\* updateState({props, oldProps, changeFlags}) up to its first await: the
\* synchronous part of _updateToken.  oldProps are the layer's props so far.
updateState(l, p, dataChanged) ==
  LET call == [layer |-> l, props |-> p, oldProps |-> props[l],
               dataChanged |-> dataChanged, pc |-> "start", err |-> "none",
               req |-> NoReq]
  IN /\ LayerMayUpdate(l)
     /\ props' = [props EXCEPT ![l] = p]
     /\ IF TokenIsCurrent(p.token, accessToken)
        THEN /\ cycles' = Append(cycles, [call EXCEPT !.pc = "afterToken"])
             /\ UNCHANGED initCalls
        ELSE /\ cycles' = Append(cycles, [call EXCEPT !.pc = "initialize"])
             /\ initCalls' = [initCalls EXCEPT ![p.token] = @ + 1]
     /\ UNCHANGED <<accessToken, state, tiles>>

\* await eeApi.initialize({token}) resolved: accessToken = token, and
\* _updateToken returns.
InitializeResolved(c) ==
  /\ TaskMayStart
  /\ cycles[c].pc = "initialize"
  /\ accessToken' = cycles[c].props.token
  /\ cycles' = [cycles EXCEPT ![c].pc = "afterToken"]
  /\ UNCHANGED <<initCalls, props, state, tiles>>

\* (a variant that assigns accessToken before the await, so that a rejected
\* initialize leaves the token behind)
InitializeRejectedTokenKept(c) ==
  /\ TaskMayStart
  /\ cycles[c].pc = "initialize"
  /\ accessToken' = cycles[c].props.token
  /\ cycles' = [cycles EXCEPT ![c] = Settled(@, "rejected", "initialize")]
  /\ UNCHANGED <<initCalls, props, state, tiles>>

\* await eeApi.initialize({token}) rejected: the rejection leaves
\* _updateToken before its assignment and updateState at its first await.
InitializeRejected(c) ==
  /\ TaskMayStart
  /\ cycles[c].pc = "initialize"
  /\ cycles' = [cycles EXCEPT ![c] = Settled(@, "rejected", "initialize")]
  /\ UNCHANGED <<accessToken, initCalls, props, state, tiles>>

\* --------------------------------------------------------- _updateEEObject
\* ee.Deserializer.fromJSON(string); a malformed string makes it throw
Malformed(raw) == raw.type = "string" /\ raw.kind = "malformed"
fromJSON(raw) == [id |-> raw.id, kind |-> raw.kind]
\* ee.ImageCollection(eeObject)
ImageCollection(h) == [id |-> h.id, kind |-> "ImageCollection"]

\* (a variant without the empty-array case of lines 97-99)
NormalizedEEObjectArrayKept(p) ==
  LET raw == p.eeObject
      parsed == CASE raw.type = "string" -> fromJSON(raw)
                  [] raw.type = "object" -> [id |-> raw.id, kind |-> raw.kind]
                  [] raw.type = "array" -> ArrayHandle
                  [] raw.type = "null" -> NullHandle
                  [] OTHER -> UndefHandle
  IN IF Truthy(parsed) /\ p.animate THEN ImageCollection(parsed) ELSE parsed

\* The value _updateEEObject stores for props p
NormalizedEEObject(p) ==
  LET raw == p.eeObject
      parsed == CASE raw.type = "string" -> fromJSON(raw)
                  [] raw.type = "object" -> [id |-> raw.id, kind |-> raw.kind]
                  [] raw.type = "array" -> ArrayHandle
                  [] raw.type = "null" -> NullHandle
                  [] OTHER -> UndefHandle
      forced == IF Truthy(parsed) /\ p.animate THEN ImageCollection(parsed) ELSE parsed
  IN IF raw.type = "array" THEN NullHandle ELSE forced

\* if (props.eeObject === oldProps.eeObject) return;
EEObjectUnchanged(p, o) == p.eeObject = o.eeObject

\* this.state after _updateEEObject(props, oldProps), from state st
_updateEEObject(st, p, o) ==
  IF EEObjectUnchanged(p, o) THEN st ELSE [st EXCEPT !.eeObject = NormalizedEEObject(p)]

\* ------------------------------------------------------- _updateEEVisParams
\* if (props.visParams === oldProps.visParams && !changeFlags.dataChanged) return;
VisParamsUnchanged(p, o, dataChanged) ==
  StrictEqual(p.visParams, o.visParams) /\ ~dataChanged

\* (a variant without the getMap test of lines 114-116)
_updateEEVisParamsNoGetMapTest(st, p, o, dataChanged) ==
  LET eeObject == st.eeObject
      renderMethod == IF p.animate THEN "filmstrip" ELSE "imageTiles"
  IN CASE VisParamsUnchanged(p, o, dataChanged) ->
            [pc |-> "afterVisParams", err |-> "none", req |-> NoReq]
       [] ~Truthy(eeObject) ->
            [pc |-> "afterVisParams", err |-> "none", req |-> NoReq]
       [] p.animate /\ ~HasGetFilmstripThumbURL(eeObject) ->
            [pc |-> "rejected", err |-> "getFilmstripThumbURL method", req |-> NoReq]
       [] OTHER ->
            [pc |-> "getMap", err |-> "none",
             req |-> [eeObject |-> eeObject, visParams |-> p.visParams,
                      renderMethod |-> renderMethod]]

\* _updateEEVisParams up to its await, with this.state = st: where the call
\* goes next, the error it throws, and the getMap request it has issued.
_updateEEVisParams(st, p, o, dataChanged) ==
  LET eeObject == st.eeObject
      renderMethod == IF p.animate THEN "filmstrip" ELSE "imageTiles"
  IN CASE VisParamsUnchanged(p, o, dataChanged) ->
            [pc |-> "afterVisParams", err |-> "none", req |-> NoReq]
       [] ~Truthy(eeObject) ->
            [pc |-> "afterVisParams", err |-> "none", req |-> NoReq]
       [] ~HasGetMap(eeObject) ->
            [pc |-> "rejected", err |-> "getMap method", req |-> NoReq]
       [] p.animate /\ ~HasGetFilmstripThumbURL(eeObject) ->
            [pc |-> "rejected", err |-> "getFilmstripThumbURL method", req |-> NoReq]
       [] OTHER ->
            [pc |-> "getMap", err |-> "none",
             req |-> [eeObject |-> eeObject, visParams |-> p.visParams,
                      renderMethod |-> renderMethod]]

\* (a variant that starts _updateEEVisParams without waiting for
\* _updateEEObject: it reads this.state as it was)
ResumeAfterTokenUnordered(c) ==
  LET cy == cycles[c]
      l == cy.layer
      st == _updateEEObject(state[l], cy.props, cy.oldProps)
      r == _updateEEVisParams(state[l], cy.props, cy.oldProps, cy.dataChanged)
  IN /\ cy.pc = "afterToken"
     /\ IF ~EEObjectUnchanged(cy.props, cy.oldProps) /\ Malformed(cy.props.eeObject)
        THEN /\ cycles' = [cycles EXCEPT ![c] = Settled(@, "rejected", "fromJSON")]
             /\ UNCHANGED state
        ELSE /\ state' = [state EXCEPT ![l] = st]
             /\ cycles' = [cycles EXCEPT ![c] =
                             IF r.pc = "rejected" THEN Settled(@, "rejected", r.err)
                             ELSE [@ EXCEPT !.pc = r.pc, !.req = r.req]]
     /\ UNCHANGED <<accessToken, initCalls, props, tiles>>

\* updateState resumes after await this._updateToken(...): _updateEEObject,
\* then _updateEEVisParams up to its own await (or its return or throw).
ResumeAfterToken(c) ==
  LET cy == cycles[c]
      l == cy.layer
      st == _updateEEObject(state[l], cy.props, cy.oldProps)
      r == _updateEEVisParams(st, cy.props, cy.oldProps, cy.dataChanged)
  IN /\ cy.pc = "afterToken"
     /\ IF ~EEObjectUnchanged(cy.props, cy.oldProps) /\ Malformed(cy.props.eeObject)
        THEN /\ cycles' = [cycles EXCEPT ![c] = Settled(@, "rejected", "fromJSON")]
             /\ UNCHANGED state
        ELSE /\ state' = [state EXCEPT ![l] = st]
             /\ cycles' = [cycles EXCEPT ![c] =
                             IF r.pc = "rejected" THEN Settled(@, "rejected", r.err)
                             ELSE [@ EXCEPT !.pc = r.pc, !.req = r.req]]
     /\ UNCHANGED <<accessToken, initCalls, props, tiles>>

\* (a variant with a generation guard: the response of a call that is no
\* longer the layer's latest is dropped)
GetMapResolvedGuarded(c) ==
  LET cy == cycles[c]
      l == cy.layer
      latest == \A d \in DOMAIN cycles : cycles[d].layer = l => d <= c
  IN /\ TaskMayStart
     /\ cy.pc = "getMap"
     /\ state' = IF latest
                 THEN [state EXCEPT
                         ![l].mapid = MapIdOf(cy.req.eeObject, cy.req.visParams),
                         ![l].urlFormat = UrlFormatOf(cy.req.eeObject, cy.req.visParams),
                         ![l].renderMethod = cy.req.renderMethod]
                 ELSE state
     /\ cycles' = [cycles EXCEPT ![c].pc = "afterVisParams"]
     /\ UNCHANGED <<accessToken, initCalls, props, tiles>>

\* await promisifyEEMethod(eeObject, 'getMap', props.visParams) resolved:
\* this.setState({mapid, urlFormat, renderMethod})
GetMapResolved(c) ==
  LET cy == cycles[c]
      l == cy.layer
  IN /\ TaskMayStart
     /\ cy.pc = "getMap"
     /\ state' = [state EXCEPT ![l].mapid = MapIdOf(cy.req.eeObject, cy.req.visParams),
                               ![l].urlFormat = UrlFormatOf(cy.req.eeObject, cy.req.visParams),
                               ![l].renderMethod = cy.req.renderMethod]
     /\ cycles' = [cycles EXCEPT ![c].pc = "afterVisParams"]
     /\ UNCHANGED <<accessToken, initCalls, props, tiles>>

\* the getMap call failed: _updateEEVisParams and updateState reject
GetMapRejected(c) ==
  /\ TaskMayStart
  /\ cycles[c].pc = "getMap"
  /\ cycles' = [cycles EXCEPT ![c] = Settled(@, "rejected", "getMap")]
  /\ UNCHANGED <<accessToken, initCalls, props, state, tiles>>

\* ----------------------------------------------------------------- _animate
\* Date.now(), in milliseconds
Timestamps == {0, 100}

\* (a variant with Math.ceil in place of Math.floor)
FrameAtCeil(ms, animationSpeed, nf) ==
  LET height == nf.n * TILE_SIZE + nf.rem
      within == (ms * animationSpeed * TILE_SIZE) % (height * 1000)
  IN (within + TILE_SIZE * 1000 - 1) \div (TILE_SIZE * 1000)

\* Math.floor(((timestamp % loopTime) / loopTime) * nFrames) with
\* timestamp = ms / 1000 and loopTime = nFrames / animationSpeed, in exact
\* arithmetic: nFrames = height / TILE_SIZE.
FrameAt(ms, animationSpeed, nf) ==
  LET height == nf.n * TILE_SIZE + nf.rem
  IN ((ms * animationSpeed * TILE_SIZE) % (height * 1000)) \div (TILE_SIZE * 1000)

\* (a variant without the test of nFrames at lines 62-64)
_animateUnguarded(st, animationSpeed, ms) ==
  IF NoFrames(st.nFrames) THEN [st EXCEPT !.frame = 0]
  ELSE [st EXCEPT !.frame = FrameAt(ms, animationSpeed, st.nFrames)]

\* this.state after _animate() at time ms
_animate(st, animationSpeed, ms) ==
  IF NoFrames(st.nFrames) THEN st
  ELSE [st EXCEPT !.frame = FrameAt(ms, animationSpeed, st.nFrames)]

\* updateState resumes after await this._updateEEVisParams(...): _animate()
ResumeAfterVisParams(c, ms) ==
  LET l == cycles[c].layer
  IN /\ cycles[c].pc = "afterVisParams"
     /\ state' = [state EXCEPT ![l] = _animate(state[l], props[l].animationSpeed, ms)]
     /\ cycles' = [cycles EXCEPT ![c] = Settled(@, "done", "none")]
     /\ UNCHANGED <<accessToken, initCalls, props, tiles>>

\* -------------------------------------------------------------- getTileData
\* the tile the TileLayer asks for
TileOptions == {[x |-> 3, y |-> 7, z |-> 2]}

\* The heights a decoded filmstrip thumbnail may have: whole numbers of
\* tiles, half a tile, and one and a half tiles.
Heights ==
  {TILE_SIZE * n : n \in 1..MaxFrames}
    \cup {TILE_SIZE \div 2, TILE_SIZE + TILE_SIZE \div 2}

NoUrl == [mapid |-> UndefMapId, path |-> <<>>]

\* (a variant that replaces every occurrence: a /{x}/g pattern)
ReplaceAll(path, token, value) ==
  [i \in 1..Len(path) |-> IF path[i] = token THEN ToString(value) ELSE path[i]]

\* The first occurrence of token in path replaced by value
\* (String.prototype.replace with a string pattern)
ReplaceFirst(path, token, value) ==
  IF \E i \in 1..Len(path) : path[i] = token
  THEN LET first == CHOOSE i \in 1..Len(path) :
                      /\ path[i] = token
                      /\ \A j \in 1..(i - 1) : path[j] # token
       IN [path EXCEPT ![first] = ToString(value)]
  ELSE path

\* urlFormat.replace('{x}', x).replace('{y}', y).replace('{z}', z)
ImageUrl(urlFormat, options) ==
  [urlFormat EXCEPT !.path =
     ReplaceFirst(ReplaceFirst(ReplaceFirst(@, "{x}", options.x), "{y}", options.y),
                  "{z}", options.z)]

\* (a variant with i <= nFrames)
SliceCountInclusive(nf) == nf.n + 1

\* for (let i = 0; i < nFrames; i++): the number of turns of the loop
SliceCount(nf) == nf.n + (IF nf.rem > 0 THEN 1 ELSE 0)

\* imageBounds of turn i (from 0): [0, i * TILE_SIZE, TILE_SIZE, TILE_SIZE]
ImageBounds(i) == <<0, i * TILE_SIZE, TILE_SIZE, TILE_SIZE>>

\* slices: one pending createImageBitmap(image, ...imageBounds) per turn
Slices(nf) == [k \in 1..SliceCount(nf) |-> [bounds |-> ImageBounds(k - 1), resolved |-> FALSE]]

\* The record of a getTileData call that has returned data (or null) or
\* thrown: only the result is left.
SettledTile(call, pc, err, data, null) ==
  [layer |-> call.layer, options |-> call.options, method |-> call.method,
   pc |-> pc, err |-> err, eeObject |-> UndefHandle, visParams |-> VisUndefined,
   url |-> NoUrl, height |-> 0, nFrames |-> UndefFrames, slices |-> <<>>,
   data |-> data, null |-> null]

\* (a variant of getImageTileData without the test of urlFormat)
getTileDataUnguarded(l, options) ==
  LET st == state[l]
      call == [layer |-> l, options |-> options, method |-> "imageTiles",
               pc |-> "start", err |-> "none", eeObject |-> UndefHandle,
               visParams |-> VisUndefined, url |-> NoUrl, height |-> 0,
               nFrames |-> UndefFrames,
               slices |-> <<>>, data |-> <<>>, null |-> FALSE]
  IN /\ tiles' = Append(tiles,
          IF st.renderMethod = "filmstrip"
          THEN IF HasGetFilmstripThumbURL(st.eeObject)
               THEN [call EXCEPT !.method = "filmstrip", !.pc = "getFilmstripThumbURL",
                                 !.eeObject = st.eeObject,
                                 !.visParams = props[l].visParams]
               ELSE SettledTile([call EXCEPT !.method = "filmstrip"], "rejected",
                                "TypeError", <<>>, FALSE)
          ELSE [call EXCEPT !.pc = "load", !.url = ImageUrl(st.urlFormat, options)])
     /\ UNCHANGED <<accessToken, initCalls, props, state, cycles>>

\* getTileData(options) up to the first await of the method it dispatches to.
\* getFilmstripTileData reads state.eeObject and props.visParams and calls
\* eeObject.getFilmstripThumbURL (a TypeError when eeObject has no such
\* method); getImageTileData returns null without a urlFormat and else
\* starts loading the tile's url.
getTileData(l, options) ==
  LET st == state[l]
      call == [layer |-> l, options |-> options, method |-> "imageTiles",
               pc |-> "start", err |-> "none", eeObject |-> UndefHandle,
               visParams |-> VisUndefined, url |-> NoUrl, height |-> 0,
               nFrames |-> UndefFrames,
               slices |-> <<>>, data |-> <<>>, null |-> FALSE]
  IN /\ tiles' = Append(tiles,
          IF st.renderMethod = "filmstrip"
          THEN IF HasGetFilmstripThumbURL(st.eeObject)
               THEN [call EXCEPT !.method = "filmstrip", !.pc = "getFilmstripThumbURL",
                                 !.eeObject = st.eeObject,
                                 !.visParams = props[l].visParams]
               ELSE SettledTile([call EXCEPT !.method = "filmstrip"], "rejected",
                                "TypeError", <<>>, FALSE)
          ELSE IF st.urlFormat = UndefUrlFormat
               THEN SettledTile(call, "done", "none", <<>>, TRUE)
               ELSE [call EXCEPT !.pc = "load", !.url = ImageUrl(st.urlFormat, options)])
     /\ UNCHANGED <<accessToken, initCalls, props, state, cycles>>

\* await load(imageUrl, ImageLoader) resolved in getImageTileData:
\* return Promise.all([image])
ImageLoaded(t) ==
  /\ TaskMayStart
  /\ tiles[t].pc = "load" /\ tiles[t].method = "imageTiles"
  /\ tiles' = [tiles EXCEPT ![t] = SettledTile(@, "done", "none", <<ImageBounds(0)>>, FALSE)]
  /\ UNCHANGED <<accessToken, initCalls, props, state, cycles>>

\* (a variant in which a failed load aborts every call in flight)
LoadRejectedAbortsAll(t) ==
  /\ TaskMayStart
  /\ tiles[t].pc = "load"
  /\ tiles' = [u \in DOMAIN tiles |->
                 IF tiles[u].pc \in {"done", "rejected"} THEN tiles[u]
                 ELSE SettledTile(tiles[u], "rejected", "load", <<>>, FALSE)]
  /\ UNCHANGED <<accessToken, initCalls, props, state, cycles>>

\* a load of either method failed: the call rejects
LoadRejected(t) ==
  /\ TaskMayStart
  /\ tiles[t].pc = "load"
  /\ tiles' = [tiles EXCEPT ![t] = SettledTile(@, "rejected", "load", <<>>, FALSE)]
  /\ UNCHANGED <<accessToken, initCalls, props, state, cycles>>

\* await promisifyEEMethod(eeObject, 'getFilmstripThumbURL', filmArgs) resolved
ThumbURLResolved(t) ==
  /\ TaskMayStart
  /\ tiles[t].pc = "getFilmstripThumbURL"
  /\ tiles' = [tiles EXCEPT ![t].pc = "load",
                            ![t].url = [mapid |-> MapIdOf(tiles[t].eeObject, tiles[t].visParams),
                                        path |-> <<"thumb">>]]
  /\ UNCHANGED <<accessToken, initCalls, props, state, cycles>>

\* the getFilmstripThumbURL call failed: the call rejects
ThumbURLRejected(t) ==
  /\ TaskMayStart
  /\ tiles[t].pc = "getFilmstripThumbURL"
  /\ tiles' = [tiles EXCEPT ![t] = SettledTile(@, "rejected", "getFilmstripThumbURL", <<>>, FALSE)]
  /\ UNCHANGED <<accessToken, initCalls, props, state, cycles>>

\* await load(imageUrl, ImageLoader, imageOptions) resolved in
\* getFilmstripTileData with an image height pixels high: nFrames, the
\* slices, this.setState({nFrames}), and Promise.all(slices) is pending.
FilmstripLoaded(t, height) ==
  LET l == tiles[t].layer
      nFrames == FramesOf(height)
  IN /\ TaskMayStart
     /\ tiles[t].pc = "load" /\ tiles[t].method = "filmstrip"
     /\ tiles' = [tiles EXCEPT ![t].pc = "slices", ![t].height = height,
                               ![t].nFrames = nFrames, ![t].slices = Slices(nFrames)]
     /\ state' = [state EXCEPT ![l].nFrames = nFrames]
     /\ UNCHANGED <<accessToken, initCalls, props, cycles>>

\* one createImageBitmap promise resolved
SliceResolved(t, k) ==
  /\ TaskMayStart
  /\ tiles[t].pc = "slices"
  /\ k \in 1..Len(tiles[t].slices)
  /\ ~tiles[t].slices[k].resolved
  /\ tiles' = [tiles EXCEPT ![t].slices[k].resolved = TRUE]
  /\ UNCHANGED <<accessToken, initCalls, props, state, cycles>>

\* one createImageBitmap promise rejected: Promise.all(slices) rejects
SliceRejected(t, k) ==
  /\ TaskMayStart
  /\ tiles[t].pc = "slices"
  /\ k \in 1..Len(tiles[t].slices)
  /\ ~tiles[t].slices[k].resolved
  /\ tiles' = [tiles EXCEPT ![t] = SettledTile(@, "rejected", "createImageBitmap", <<>>, FALSE)]
  /\ UNCHANGED <<accessToken, initCalls, props, state, cycles>>

\* Promise.all(slices) resolved: the call returns the bitmaps in slice order
FilmstripReturned(t) ==
  /\ Returning(t)
  /\ tiles' = [tiles EXCEPT ![t] =
                  SettledTile(@, "done", "none",
                              [k \in 1..Len(tiles[t].slices) |-> tiles[t].slices[k].bounds],
                              FALSE)]
  /\ UNCHANGED <<accessToken, initCalls, props, state, cycles>>

\* ------------------------------------------------------------- renderLayers
\* const {mapid, frame = 0} = this.state; return mapid && new TileLayer(...)
renderLayers(st) ==
  [tileLayer |-> st.mapid # UndefMapId,
   frame |-> IF st.frame = UndefFrame THEN 0 ELSE st.frame]

\* ----------------------------------------------------------- specifications
ImageA == EEObj("A", "Image")
CollectionB == EEObj("B", "ImageCollection")

\* Descriptor scenario: one layer whose application changes eeObject,
\* visParams (v1 and v1copy hold the same content) and animate, or else
\* replaces the data prop alone (the layer does not use it).
DescriptorProps ==
  {MkProps(token, eeObject, visParams, animate) :
     token \in {"T1"},
     eeObject \in {NullRef, ImageA, CollectionB},
     visParams \in {Vis("v1", "a"), Vis("v1copy", "a"), Vis("v2", "b")},
     animate \in BOOLEAN}

Next ==
  \/ /\ Len(cycles) < MaxCycles
     /\ \/ \E p \in DescriptorProps : updateState("L1", p, FALSE)
        \/ props["L1"] \in DescriptorProps /\ updateState("L1", props["L1"], TRUE)
  \/ \E c \in 1..Len(cycles) : InitializeResolved(c)
  \/ \E c \in 1..Len(cycles) : InitializeRejected(c)
  \/ \E c \in 1..Len(cycles) : ResumeAfterToken(c)
  \/ \E c \in 1..Len(cycles) : GetMapResolved(c)
  \/ \E c \in 1..Len(cycles) : GetMapRejected(c)
  \/ \E c \in 1..Len(cycles), ms \in Timestamps : ResumeAfterVisParams(c, ms)

Spec == Init /\ [][Next]_vars

\* Session scenario: two layers whose applications change their tokens.
SessionProps ==
  {MkProps(token, ImageA, Vis("v1", "a"), FALSE) : token \in {NoToken} \cup Tokens}

NextSession ==
  \/ /\ Len(cycles) < MaxSessionCycles
     /\ \E l \in AllLayers, p \in SessionProps : updateState(l, p, FALSE)
  \/ \E c \in 1..Len(cycles) : InitializeResolved(c)
  \/ \E c \in 1..Len(cycles) : InitializeRejected(c)
  \/ \E c \in 1..Len(cycles) : ResumeAfterToken(c)
  \/ \E c \in 1..Len(cycles) : GetMapResolved(c)
  \/ \E c \in 1..Len(cycles) : GetMapRejected(c)
  \/ \E c \in 1..Len(cycles), ms \in Timestamps : ResumeAfterVisParams(c, ms)

SpecSession == Init /\ [][NextSession]_vars

\* Tile scenario: one layer, without a token, whose application passes a new
\* visParams object (an object literal) with every update, and the tiles
\* its TileLayer asks for.
FreshVis == Vis(ToString(Len(cycles) + 1), "a")
TileProps ==
  {MkProps(NoToken, eeObject, FreshVis, animate) :
     eeObject \in {ImageA, CollectionB},
     animate \in BOOLEAN}

TileNext(maxCycles, maxTiles) ==
  \/ /\ Len(cycles) < maxCycles
     /\ \E p \in TileProps : updateState("L1", p, FALSE)
  \/ \E c \in 1..Len(cycles) : ResumeAfterToken(c)
  \/ \E c \in 1..Len(cycles) : GetMapResolved(c)
  \/ \E c \in 1..Len(cycles) : GetMapRejected(c)
  \/ \E c \in 1..Len(cycles), ms \in Timestamps : ResumeAfterVisParams(c, ms)
  \/ /\ Len(tiles) < maxTiles
     /\ \E options \in TileOptions : getTileData("L1", options)
  \/ \E t \in 1..Len(tiles) : ImageLoaded(t)
  \/ \E t \in 1..Len(tiles) : LoadRejected(t)
  \/ \E t \in 1..Len(tiles) : ThumbURLResolved(t)
  \/ \E t \in 1..Len(tiles) : ThumbURLRejected(t)
  \/ \E t \in 1..Len(tiles), height \in Heights : FilmstripLoaded(t, height)
  \/ \E t \in 1..Len(tiles), k \in 1..MaxFrames + 1 : SliceResolved(t, k)
  \/ \E t \in 1..Len(tiles), k \in 1..MaxFrames + 1 : SliceRejected(t, k)
  \/ \E t \in 1..Len(tiles) : FilmstripReturned(t)

NextTiles == TileNext(MaxTileCycles, MaxTiles)

SpecTiles == Init /\ [][NextTiles]_vars

\* Single tile scenario: the tile scenario with one update and one tile
NextOneTile == TileNext(MaxOneTileCycles, MaxOneTileTiles)

SpecOneTile == Init /\ [][NextOneTile]_vars

\* Animation scenario: a layer in filmstrip mode whose first tile has been
\* sliced (nFrames is known, no frame chosen yet) is updated again and again
\* with props that did not change; update c runs _animate at TickTime(c).
AnimationSpeeds == {DefaultAnimationSpeed, 10}

AnimateProps(animationSpeed) ==
  [MkProps(NoToken, CollectionB, Vis("1", "a"), TRUE) EXCEPT !.animationSpeed = animationSpeed]

\* this.state once updateState for AnimateProps has completed and a
\* thumbnail height pixels high was loaded
AnimateState(height) ==
  LET h == NormalizedEEObject(AnimateProps(DefaultAnimationSpeed))
      vis == Vis("1", "a")
  IN [eeObject |-> h, mapid |-> MapIdOf(h, vis), urlFormat |-> UrlFormatOf(h, vis),
      renderMethod |-> "filmstrip", nFrames |-> FramesOf(height), frame |-> UndefFrame]

InitAnimate ==
  /\ accessToken = "undefined"
  /\ initCalls = [t \in Tokens |-> 0]
  /\ \E animationSpeed \in AnimationSpeeds, height \in Heights :
       /\ props = [l \in AllLayers |->
                     IF l = "L1" THEN AnimateProps(animationSpeed) ELSE EmptyProps]
       /\ state = [l \in AllLayers |->
                     IF l = "L1" THEN AnimateState(height) ELSE EmptyState]
       /\ tiles = <<SettledTile([layer |-> "L1", options |-> CHOOSE o \in TileOptions : TRUE,
                                 method |-> "filmstrip"],
                                "done", "none",
                                [k \in 1..SliceCount(FramesOf(height)) |-> ImageBounds(k - 1)],
                                FALSE)>>
  /\ cycles = <<Settled([layer |-> "L1"], "done", "none")>>

\* Date.now() in milliseconds when updateState call c runs _animate
TickTime(c) == (c - 1) * 50

NextAnimate ==
  \/ /\ Len(cycles) < MaxTicks + 1
     /\ updateState("L1", props["L1"], FALSE)
  \/ \E c \in 1..Len(cycles) : ResumeAfterToken(c)
  \/ \E c \in 1..Len(cycles) : ResumeAfterVisParams(c, TickTime(c))

SpecAnimate == InitAnimate /\ [][NextAnimate]_vars

\* Template scenario: a layer in imageTiles mode whose getMap answered with
\* some url template, and the tiles its TileLayer asks for.  A template is a
\* sequence of pieces: the tokens {x}, {y}, {z} and literal text.
TemplatePieces == {"{x}", "{y}", "{z}", "/"}

\* the non-empty sequences over S of length at most n
SeqsUpTo(S, n) == UNION {[1..k -> S] : k \in 1..n}

Templates ==
  SeqsUpTo(TemplatePieces, MaxTemplateLen)
    \cup {<<"https://x/", "{z}", "/", "{x}", "/", "{y}", ".png">>}

TemplateOptions == {[x |-> 3, y |-> 7, z |-> 2], [x |-> 0, y |-> 1, z |-> 5]}

TemplateProps == MkProps(NoToken, ImageA, Vis("1", "a"), FALSE)

\* this.state once updateState for TemplateProps has completed with a
\* getMap response whose urlFormat is template
TemplateState(template) ==
  LET h == NormalizedEEObject(TemplateProps)
      vis == TemplateProps.visParams
  IN [eeObject |-> h, mapid |-> MapIdOf(h, vis),
      urlFormat |-> [UrlFormatOf(h, vis) EXCEPT !.path = template],
      renderMethod |-> "imageTiles", nFrames |-> UndefFrames, frame |-> UndefFrame]

InitTemplate ==
  /\ accessToken = "undefined"
  /\ initCalls = [t \in Tokens |-> 0]
  /\ props = [l \in AllLayers |-> IF l = "L1" THEN TemplateProps ELSE EmptyProps]
  /\ \E template \in Templates :
       state = [l \in AllLayers |-> IF l = "L1" THEN TemplateState(template) ELSE EmptyState]
  /\ cycles = <<Settled([layer |-> "L1"], "done", "none")>>
  /\ tiles = <<>>

NextTemplate ==
  \/ /\ Len(tiles) < MaxTemplateTiles
     /\ \E options \in TemplateOptions : getTileData("L1", options)
  \/ \E t \in 1..Len(tiles) : ImageLoaded(t)
  \/ \E t \in 1..Len(tiles) : LoadRejected(t)

SpecTemplate == InitTemplate /\ [][NextTemplate]_vars

\* Normalization scenario: one layer, without a token, whose application
\* passes every form of eeObject (null, an empty array, ee objects, one of
\* them an ee.Geometry, which has no getMap, JSON strings, one of them
\* malformed) with a new visParams object each time.
NormalizeObjects ==
  {NullRef, EmptyArray, ImageA, EEObj("F", "FeatureCollection"),
   EEObj("G", "Geometry"), EEJson("J", "Image"), EEJson("M", "malformed")}

NormalizeProps ==
  {MkProps(NoToken, eeObject, FreshVis, animate) :
     eeObject \in NormalizeObjects, animate \in BOOLEAN}

NextNormalize ==
  \/ /\ Len(cycles) < MaxNormalizeCycles
     /\ \E p \in NormalizeProps : updateState("L1", p, FALSE)
  \/ \E c \in 1..Len(cycles) : ResumeAfterToken(c)
  \/ \E c \in 1..Len(cycles) : GetMapResolved(c)
  \/ \E c \in 1..Len(cycles) : GetMapRejected(c)
  \/ \E c \in 1..Len(cycles), ms \in Timestamps : ResumeAfterVisParams(c, ms)

SpecNormalize == Init /\ [][NextNormalize]_vars

\* Sibling tiles scenario: a layer whose descriptor is resolved, in either
\* mode, and whose TileLayer asks for several tiles at once.
SiblingProps(animate) == MkProps(NoToken, CollectionB, Vis("1", "a"), animate)

\* this.state once updateState for SiblingProps(animate) has completed
SiblingState(animate) ==
  LET p == SiblingProps(animate)
      h == NormalizedEEObject(p)
  IN [eeObject |-> h, mapid |-> MapIdOf(h, p.visParams),
      urlFormat |-> UrlFormatOf(h, p.visParams),
      renderMethod |-> IF animate THEN "filmstrip" ELSE "imageTiles",
      nFrames |-> UndefFrames, frame |-> UndefFrame]

InitSiblings ==
  /\ accessToken = "undefined"
  /\ initCalls = [t \in Tokens |-> 0]
  /\ \E animate \in BOOLEAN :
       /\ props = [l \in AllLayers |-> IF l = "L1" THEN SiblingProps(animate) ELSE EmptyProps]
       /\ state = [l \in AllLayers |-> IF l = "L1" THEN SiblingState(animate) ELSE EmptyState]
  /\ cycles = <<Settled([layer |-> "L1"], "done", "none")>>
  /\ tiles = <<>>

NextSiblings ==
  \/ /\ Len(tiles) < MaxSiblingTiles
     /\ \E options \in TileOptions : getTileData("L1", options)
  \/ \E t \in 1..Len(tiles) : ImageLoaded(t)
  \/ \E t \in 1..Len(tiles) : LoadRejected(t)
  \/ \E t \in 1..Len(tiles) : ThumbURLResolved(t)
  \/ \E t \in 1..Len(tiles) : ThumbURLRejected(t)
  \/ \E t \in 1..Len(tiles), height \in Heights : FilmstripLoaded(t, height)
  \/ \E t \in 1..Len(tiles), k \in 1..MaxFrames + 1 : SliceResolved(t, k)
  \/ \E t \in 1..Len(tiles), k \in 1..MaxFrames + 1 : SliceRejected(t, k)
  \/ \E t \in 1..Len(tiles) : FilmstripReturned(t)

SpecSiblings == InitSiblings /\ [][NextSiblings]_vars

\* Frame scenario: a layer whose descriptor is resolved, in either mode, is
\* updated with props that did not change while its TileLayer asks for
\* tiles.
NextFrames ==
  \/ /\ Len(cycles) < MaxFrameCycles + 1
     /\ updateState("L1", props["L1"], FALSE)
  \/ \E c \in 1..Len(cycles) : ResumeAfterToken(c)
  \/ \E c \in 1..Len(cycles), ms \in Timestamps : ResumeAfterVisParams(c, ms)
  \/ /\ Len(tiles) < MaxFrameTiles
     /\ \E options \in TileOptions : getTileData("L1", options)
  \/ \E t \in 1..Len(tiles) : ImageLoaded(t)
  \/ \E t \in 1..Len(tiles) : LoadRejected(t)
  \/ \E t \in 1..Len(tiles) : ThumbURLResolved(t)
  \/ \E t \in 1..Len(tiles) : ThumbURLRejected(t)
  \/ \E t \in 1..Len(tiles), height \in Heights : FilmstripLoaded(t, height)
  \/ \E t \in 1..Len(tiles), k \in 1..MaxFrames + 1 : SliceResolved(t, k)
  \/ \E t \in 1..Len(tiles), k \in 1..MaxFrames + 1 : SliceRejected(t, k)
  \/ \E t \in 1..Len(tiles) : FilmstripReturned(t)

SpecFrames == InitSiblings /\ [][NextFrames]_vars

\* ------------------------------------------------------------------- claims
\* the renderMethod _updateEEVisParams chooses for props.animate
RenderMethodFor(animate) == IF animate THEN "filmstrip" ELSE "imageTiles"

\* this step takes updateState call c to its getMap call
IssuesGetMap(c) == cycles[c].pc # "getMap" /\ cycles'[c].pc = "getMap"

\* C1: a cycle whose visParams is deeply equal to the previous one's, whose
\* eeObject prop is the same and whose dataChanged flag is not set issues no
\* getMap call (so mapid, urlFormat and renderMethod stay), also when
\* visParams is another object with the same content.
C1_NoGetMapWhenDeepEqual ==
  \A c \in DOMAIN cycles :
    ( /\ deepEqual(cycles[c].props.visParams, cycles[c].oldProps.visParams)
      /\ cycles[c].props.eeObject = cycles[c].oldProps.eeObject
      /\ ~cycles[c].dataChanged )
    => cycles[c].pc # "getMap"

\* C2: a cycle whose eeObject prop differs from the previous one's and
\* normalizes to a handle with getMap has, when it is past _updateEEVisParams
\* without an error, issued getMap for that handle, also when visParams is
\* unchanged and dataChanged is not set.
C2_GetMapWhenHandleChanges ==
  \A c \in DOMAIN cycles :
    ( /\ cycles[c].props.eeObject # cycles[c].oldProps.eeObject
      /\ Truthy(NormalizedEEObject(cycles[c].props))
      /\ HasGetMap(NormalizedEEObject(cycles[c].props))
      /\ cycles[c].pc = "afterVisParams" )
    => cycles[c].req.eeObject = NormalizedEEObject(cycles[c].props)

\* C3: when a cycle completes without an error and the layer has a handle,
\* state.renderMethod is 'filmstrip' if the cycle's props.animate is true and
\* 'imageTiles' otherwise.
C3_ModeFollowsAnimate ==
  [][\A c \in DOMAIN cycles :
       ( /\ cycles[c].pc = "afterVisParams"
         /\ cycles'[c].pc = "done"
         /\ Truthy(state'[cycles[c].layer].eeObject) )
       => state'[cycles[c].layer].renderMethod = RenderMethodFor(cycles[c].props.animate)]_vars

\* C4: eeApi.initialize is called at most once for each token, over all
\* layers and cycles.
C4_InitializeOncePerToken == \A t \in Tokens : initCalls[t] <= 1

\* C5: a getMap call, a getFilmstripThumbURL call or a tile image load is
\* issued for a layer only while accessToken equals that layer's props.token.
C5_SessionBeforeFetch ==
  [][/\ \A c \in DOMAIN cycles :
          IssuesGetMap(c) => accessToken = props[cycles[c].layer].token
     /\ \A t \in DOMAIN tiles' :
          ( /\ t \notin DOMAIN tiles \/ tiles[t].pc # tiles'[t].pc
            /\ tiles'[t].pc \in {"getFilmstripThumbURL", "load"} )
          => accessToken = props[tiles'[t].layer].token]_vars

\* C6: accessToken is written only by the step in which initialize for that
\* token resolves; when initialize rejects, accessToken and the layers'
\* state stay as they are and the cycle ends rejected with that error, never
\* to take another step.
C6_TokenWrittenOnSuccessOnly ==
  [][/\ accessToken' # accessToken =>
          \E c \in DOMAIN cycles :
            /\ cycles[c].pc = "initialize"
            /\ cycles'[c].pc = "afterToken"
            /\ accessToken' = cycles[c].props.token
     /\ \A c \in DOMAIN cycles :
          (cycles[c].pc = "initialize" /\ cycles'[c].pc \notin {"initialize", "afterToken"})
          => /\ cycles'[c].pc = "rejected"
             /\ cycles'[c].err = "initialize"
             /\ cycles'[c].req = NoReq
             /\ accessToken' = accessToken
             /\ state' = state
     /\ \A c \in DOMAIN cycles :
          cycles[c].pc = "rejected" => cycles'[c] = cycles[c]]_vars

\* C6 witness: the one initialize for T1 has been rejected, on a layer whose
\* state is still empty, while accessToken holds T2, whose one initialize
\* succeeded.
C6_Witness ==
  \E c \in DOMAIN cycles :
    /\ cycles[c].pc = "rejected"
    /\ cycles[c].err = "initialize"
    /\ initCalls = [t \in Tokens |-> 1]
    /\ accessToken = "T2"
    /\ state[cycles[c].layer] = EmptyState

\* C7: an updateState call whose props.token is absent or equals accessToken
\* calls initialize neither at its start nor later and leaves accessToken
\* as it is.
C7_NoInitializeForCurrentToken ==
  [][/\ Len(cycles') > Len(cycles) =>
          LET new == cycles'[Len(cycles')]
          IN (new.props.token = NoToken \/ new.props.token = accessToken)
             => /\ initCalls' = initCalls
                /\ accessToken' = accessToken
                /\ new.pc = "afterToken"
     /\ \A c \in DOMAIN cycles :
          cycles[c].pc # "initialize" =>
            /\ cycles'[c].pc # "initialize"
            /\ (cycles'[c] # cycles[c] => accessToken' = accessToken)]_vars

\* C7 witness: a second cycle with token T1 has passed _updateToken after
\* the first one's initialize, and initialize was called once for T1.
C7_Witness ==
  /\ Len(cycles) >= 2
  /\ cycles[1].props.token = "T1" /\ cycles[1].pc \notin {"initialize", "rejected"}
  /\ cycles[2].props.token = "T1" /\ cycles[2].pc = "afterToken"
  /\ accessToken = "T1"
  /\ initCalls["T1"] = 1

\* C8: a cycle with animate true whose handle, once _updateEEObject has
\* run, has getMap but no getFilmstripThumbURL ends rejected with the
\* getFilmstripThumbURL error in the step that runs _updateEEVisParams: it
\* has issued no getMap call, mapid, urlFormat and renderMethod are as
\* before, and it takes no step (issues no call) afterwards.
C8_AnimateNeedsFilmstripMethod ==
  [][/\ \A c \in DOMAIN cycles :
          LET l == cycles[c].layer
              h == state'[l].eeObject
          IN ( /\ cycles[c].pc = "afterToken"
               /\ cycles'[c].pc # "afterToken"
               /\ cycles[c].props.animate
               /\ HasGetMap(h)
               /\ ~HasGetFilmstripThumbURL(h) )
             => /\ cycles'[c].pc = "rejected"
                /\ cycles'[c].err = "getFilmstripThumbURL method"
                /\ cycles'[c].req = NoReq
                /\ state'[l].mapid = state[l].mapid
                /\ state'[l].urlFormat = state[l].urlFormat
                /\ state'[l].renderMethod = state[l].renderMethod
     /\ \A c \in DOMAIN cycles :
          (cycles[c].pc = "rejected" /\ cycles[c].err = "getFilmstripThumbURL method")
          => cycles'[c] = cycles[c]]_vars

\* C8 witness: a cycle with animate true was rejected for the missing
\* getFilmstripThumbURL while the layer holds an ee.Image and an earlier
\* descriptor.
C8_Witness ==
  \E c \in DOMAIN cycles :
    /\ cycles[c].pc = "rejected"
    /\ cycles[c].err = "getFilmstripThumbURL method"
    /\ props[cycles[c].layer].animate
    /\ state[cycles[c].layer].eeObject.kind = "Image"
    /\ state[cycles[c].layer].renderMethod = "imageTiles"

\* C9: when a getMap result takes renderMethod from 'filmstrip' to
\* 'imageTiles', state.nFrames and state.frame become undefined; and in
\* 'imageTiles' mode the end of a cycle does not change state.frame.
C9_AnimationStateReset ==
  [][\A l \in AllLayers :
       /\ (state[l].renderMethod = "filmstrip" /\ state'[l].renderMethod = "imageTiles")
          => (state'[l].nFrames = UndefFrames /\ state'[l].frame = UndefFrame)
       /\ (state[l].renderMethod = "imageTiles" /\ state'[l].renderMethod = "imageTiles")
          => (state'[l].frame = state[l].frame \/ state'[l].frame = UndefFrame)]_vars

\* C10: for a thumbnail of height 256 * N, N >= 1, getFilmstripTileData
\* records nFrames = N in the layer's state when the image is loaded, returns
\* only once all N createImageBitmap promises have resolved, and returns N
\* frames, frame i (from 0) being the window [0, i * 256, 256, 256].
C10_FilmstripSlicing ==
  [][\A t \in DOMAIN tiles :
       LET height == IF tiles[t].pc = "load" THEN tiles'[t].height ELSE tiles[t].height
           N == height \div TILE_SIZE
       IN (tiles[t].method = "filmstrip" /\ height % TILE_SIZE = 0) =>
            /\ (tiles[t].pc = "load" /\ tiles'[t].pc = "slices") =>
                 /\ N >= 1
                 /\ state'[tiles[t].layer].nFrames = [n |-> N, rem |-> 0]
                 /\ Len(tiles'[t].slices) = N
            /\ (tiles[t].pc = "slices" /\ tiles'[t].pc = "done") =>
                 /\ Len(tiles[t].slices) = N
                 /\ \A k \in 1..N : tiles[t].slices[k].resolved
                 /\ Len(tiles'[t].data) = N
                 /\ \A i \in 0..(N - 1) :
                      tiles'[t].data[i + 1] = <<0, i * 256, 256, 256>>]_vars

\* C10 witness: a filmstrip call has returned the two frames of a thumbnail
\* 512 pixels high.
C10_Witness ==
  /\ Len(tiles) = 1
  /\ tiles[1].method = "filmstrip"
  /\ tiles[1].pc = "done"
  /\ tiles[1].data = <<ImageBounds(0), ImageBounds(1)>>
  /\ state[tiles[1].layer].nFrames = [n |-> 2, rem |-> 0]

\* C11: a filmstrip thumbnail whose decoded height is no multiple of 256 is
\* rejected: no getFilmstripTileData call goes on to slice such an image
\* (the call ends rejected, without frames and without touching the layer's
\* state), and state.nFrames never holds a fraction of a frame.
C11_FractionalHeightRejected ==
  [][/\ \A t \in DOMAIN tiles :
          ( /\ tiles[t].method = "filmstrip"
            /\ tiles[t].pc = "load"
            /\ tiles'[t].pc # "load"
            /\ tiles'[t].height % TILE_SIZE # 0 )
          => /\ tiles'[t].pc = "rejected"
             /\ tiles'[t].data = <<>>
             /\ state' = state
     /\ \A l \in AllLayers : state'[l].nFrames.rem = 0]_vars

\* the loop period (of nFrames / animationSpeed seconds) that time ms falls in
LoopIndex(ms, animationSpeed, nf) ==
  (ms * animationSpeed * TILE_SIZE) \div ((nf.n * TILE_SIZE + nf.rem) * 1000)

\* time ms is a whole number of loop periods
LoopBoundary(ms, animationSpeed, nf) ==
  (ms * animationSpeed * TILE_SIZE) % ((nf.n * TILE_SIZE + nf.rem) * 1000) = 0

\* C12: when updateState call c runs _animate with a whole frame count
\* nFrames > 0 and animationSpeed > 0, state.frame becomes an integer in
\* 0..nFrames-1; it is not smaller than the frame of the previous update if
\* both times fall in the same loop period, and it is 0 when the time is a
\* whole number of loop periods.
C12_FrameInRangeAndMonotone ==
  [][\A c \in DOMAIN cycles :
       LET l == cycles[c].layer
           nf == state[l].nFrames
           speed == props[l].animationSpeed
       IN ( /\ cycles[c].pc = "afterVisParams"
            /\ cycles'[c].pc = "done"
            /\ nf.n > 0 /\ nf.rem = 0
            /\ speed > 0 )
          => /\ state'[l].frame \in 0..(nf.n - 1)
             /\ ( /\ c > 2
                  /\ state[l].frame # UndefFrame
                  /\ LoopIndex(TickTime(c - 1), speed, nf) = LoopIndex(TickTime(c), speed, nf) )
                => state[l].frame <= state'[l].frame
             /\ LoopBoundary(TickTime(c), speed, nf) => state'[l].frame = 0]_vars

\* C12 witness: with two frames at 10 frames a second (a loop of 200 ms) the
\* update at 150 ms chose frame 1 and the one at 200 ms is back at frame 0.
C12_Witness ==
  /\ Len(cycles) = 5
  /\ cycles[5].pc = "done"
  /\ TickTime(5) = 200
  /\ props["L1"].animationSpeed = 10
  /\ state["L1"].nFrames = [n |-> 2, rem |-> 0]
  /\ state["L1"].frame = 0
  /\ FrameAt(TickTime(4), 10, state["L1"].nFrames) = 1

\* template with the first {x}, the first {y} and the first {z} replaced by
\* the decimal digits of the tile's coordinates, every other piece kept
Substituted(template, options) ==
  [i \in 1..Len(template) |->
     LET first == \A j \in 1..(i - 1) : template[j] # template[i]
     IN CASE template[i] = "{x}" /\ first -> ToString(options.x)
          [] template[i] = "{y}" /\ first -> ToString(options.y)
          [] template[i] = "{z}" /\ first -> ToString(options.z)
          [] OTHER -> template[i]]

\* C13: getImageTileData({x, y, z}) with a urlFormat starts loading the url
\* that is the template with the first {x}, {y} and {z} replaced by the
\* coordinates (under the same map id), and when that load resolves the call
\* returns a sequence of exactly one image.
C13_TemplateSubstitution ==
  [][\A l \in AllLayers :
       /\ ( /\ Len(tiles') = Len(tiles) + 1
            /\ tiles'[Len(tiles')].layer = l
            /\ state[l].renderMethod # "filmstrip"
            /\ state[l].urlFormat # UndefUrlFormat )
          => LET new == tiles'[Len(tiles')]
             IN /\ new.pc = "load"
                /\ new.url.mapid = state[l].urlFormat.mapid
                /\ new.url.path = Substituted(state[l].urlFormat.path, new.options)
       /\ \A t \in DOMAIN tiles :
            ( /\ tiles[t].layer = l
              /\ tiles[t].method = "imageTiles"
              /\ tiles[t].pc = "load"
              /\ tiles'[t].pc = "done" )
            => /\ Len(tiles'[t].data) = 1
               /\ ~tiles'[t].null]_vars

\* C13 witness: the tile x = 3, y = 7, z = 2 of the template
\* https://x/{z}/{x}/{y}.png is being loaded from https://x/2/3/7.png.
C13_Witness ==
  /\ state["L1"].urlFormat.path = <<"https://x/", "{z}", "/", "{x}", "/", "{y}", ".png">>
  /\ Len(tiles) = 1
  /\ tiles[1].options = [x |-> 3, y |-> 7, z |-> 2]
  /\ tiles[1].pc = "load"
  /\ tiles[1].url.path = <<"https://x/", "2", "/", "3", "/", "7", ".png">>

\* C14: a getTileData call made while the layer is not in filmstrip mode and
\* has no urlFormat returns null at once: it has loaded nothing, thrown
\* nothing and changed no state; and renderLayers yields no TileLayer for a
\* layer without a mapid.
C14_NotReadyIsNull ==
  [][\A l \in AllLayers :
       /\ ( /\ Len(tiles') = Len(tiles) + 1
            /\ tiles'[Len(tiles')].layer = l
            /\ state[l].renderMethod # "filmstrip"
            /\ state[l].urlFormat = UndefUrlFormat )
          => LET new == tiles'[Len(tiles')]
             IN /\ new.pc = "done"
                /\ new.null
                /\ new.data = <<>>
                /\ new.err = "none"
                /\ new.url = NoUrl
                /\ state' = state
       /\ state'[l].mapid = UndefMapId => ~renderLayers(state'[l]).tileLayer]_vars

\* C14 witness: a tile asked for while the getMap call was still in flight
\* got null, and the layer renders no TileLayer.
C14_Witness ==
  /\ Len(tiles) = 1
  /\ tiles[1].pc = "done" /\ tiles[1].null
  /\ Len(cycles) = 1 /\ cycles[1].pc = "getMap"
  /\ state["L1"].urlFormat = UndefUrlFormat
  /\ ~renderLayers(state["L1"]).tileLayer

\* C15: when a cycle runs _updateEEObject for a changed props.eeObject, the
\* handle it stores is null if the prop is null or an empty array (whatever
\* animate is), and the cycle then issues no getMap call and has made no
\* initialize call; in every other case the handle is the prop itself, or what
\* a JSON string deserializes to, turned into an ee.ImageCollection exactly
\* when animate is true.  For an unchanged props.eeObject the handle stays.
C15_Normalization ==
  [][\A c \in DOMAIN cycles :
       LET l == cycles[c].layer
           p == cycles[c].props
           raw == p.eeObject
           stored == state'[l].eeObject
       IN ( /\ cycles[c].pc = "afterToken"
            /\ cycles'[c].pc # "afterToken"
            /\ cycles'[c].err # "fromJSON" )
          => IF raw = cycles[c].oldProps.eeObject
             THEN stored = state[l].eeObject
             ELSE IF raw.type \in {"null", "array"}
             THEN /\ stored = NullHandle
                  /\ cycles'[c].pc = "afterVisParams"
                  /\ cycles'[c].req = NoReq
                  /\ initCalls' = initCalls
             ELSE /\ stored.id = raw.id
                  /\ stored.kind = IF p.animate THEN "ImageCollection" ELSE raw.kind]_vars

\* C15 witness: after an ee.Image, the layer was given an empty array with
\* animate true: the stored handle is null while the first descriptor is
\* still there, and the cycle has completed.
C15_Witness ==
  /\ Len(cycles) = 2
  /\ cycles[1].pc = "done" /\ cycles[2].pc = "done"
  /\ props["L1"].eeObject = EmptyArray
  /\ props["L1"].animate
  /\ state["L1"].eeObject = NullHandle
  /\ state["L1"].mapid.obj = "A"

\* getTileData call t has neither returned nor thrown
InFlight(t) == tiles[t].pc \notin {"done", "rejected"}

\* getTileData call t can take its next step with a success
CanProceed(t) ==
  ENABLED ( \/ ImageLoaded(t)
            \/ ThumbURLResolved(t)
            \/ \E height \in Heights : FilmstripLoaded(t, height)
            \/ \E k \in 1..MaxFrames + 1 : SliceResolved(t, k)
            \/ FilmstripReturned(t) )

\* C16: the step in which one getTileData call fails (its url request, its
\* load or one of its createImageBitmap calls) ends that call rejected with
\* the error, with neither frames nor null as its result, leaves every other
\* call as it was and leaves mapid, urlFormat and renderMethod alone; and
\* every call in flight can always go on to its own result as soon as no
\* continuation is waiting to run.
C16_TileFailuresIsolated ==
  /\ [][\A t \in DOMAIN tiles :
          (InFlight(t) /\ tiles'[t].pc = "rejected")
          => /\ tiles'[t].err # "none"
             /\ tiles'[t].data = <<>>
             /\ ~tiles'[t].null
             /\ \A u \in DOMAIN tiles : u # t => tiles'[u] = tiles[u]
             /\ \A l \in AllLayers :
                  /\ state'[l].mapid = state[l].mapid
                  /\ state'[l].urlFormat = state[l].urlFormat
                  /\ state'[l].renderMethod = state[l].renderMethod]_vars
  /\ [](\A t \in DOMAIN tiles : (InFlight(t) /\ TaskMayStart) => CanProceed(t))

\* C16 witness: of two filmstrip calls in flight together the first was
\* rejected by its load and the second has returned its two frames.
C16_Witness ==
  /\ Len(tiles) = 2
  /\ tiles[1].method = "filmstrip" /\ tiles[1].pc = "rejected" /\ tiles[1].err = "load"
  /\ tiles[2].method = "filmstrip" /\ tiles[2].pc = "done"
  /\ tiles[2].data = <<ImageBounds(0), ImageBounds(1)>>
  /\ state["L1"].renderMethod = "filmstrip"

\* the order of the steps of one updateState call
OrderedSteps ==
  {<<"initialize", "afterToken">>, <<"initialize", "rejected">>,
   <<"afterToken", "getMap">>, <<"afterToken", "afterVisParams">>,
   <<"afterToken", "rejected">>,
   <<"getMap", "afterVisParams">>, <<"getMap", "rejected">>,
   <<"afterVisParams", "done">>}

\* C17: an updateState call passes its steps in order: it starts in
\* _updateToken and touches no layer state there; the handle is stored only
\* in the step that follows the completed _updateToken; getMap is issued in
\* that step, after the store, for the handle just stored (and is left out
\* only for unchanged visParams or a null handle just stored); the
\* descriptor is written only when that getMap call resolves; and frame is
\* written only in the step after _updateEEVisParams has completed.
C17_StepsInOrder ==
  [][/\ \A c \in DOMAIN cycles :
          LET l == cycles[c].layer
              from == cycles[c].pc
              to == cycles'[c].pc
          IN /\ from # to => <<from, to>> \in OrderedSteps
             /\ IssuesGetMap(c) =>
                  /\ from = "afterToken"
                  /\ Truthy(state'[l].eeObject)
                  /\ cycles'[c].req.eeObject = state'[l].eeObject
             /\ (from = "afterToken" /\ to = "afterVisParams") =>
                  \/ VisParamsUnchanged(cycles[c].props, cycles[c].oldProps,
                                        cycles[c].dataChanged)
                  \/ ~Truthy(state'[l].eeObject)
     /\ Len(cycles') > Len(cycles) =>
          /\ cycles'[Len(cycles')].pc \in {"initialize", "afterToken"}
          /\ state' = state
     /\ \A l \in AllLayers :
          /\ state'[l].eeObject # state[l].eeObject =>
               \E c \in DOMAIN cycles :
                 cycles[c].layer = l /\ cycles[c].pc = "afterToken" /\ cycles'[c].pc # "afterToken"
          /\ ( \/ state'[l].mapid # state[l].mapid
               \/ state'[l].urlFormat # state[l].urlFormat
               \/ state'[l].renderMethod # state[l].renderMethod ) =>
               \E c \in DOMAIN cycles :
                 cycles[c].layer = l /\ cycles[c].pc = "getMap" /\ cycles'[c].pc = "afterVisParams"
          /\ state'[l].frame # state[l].frame =>
               \E c \in DOMAIN cycles :
                 cycles[c].layer = l /\ cycles[c].pc = "afterVisParams" /\ cycles'[c].pc = "done"]_vars

\* C17 witness: a call with token T1 has gone through initialize, the store
\* of the handle, getMap and _animate, and has returned.
C17_Witness ==
  /\ Len(cycles) = 1
  /\ cycles[1].pc = "done"
  /\ cycles[1].layer = "L1"
  /\ initCalls["T1"] = 1
  /\ accessToken = "T1"
  /\ state["L1"].eeObject.id = "A"
  /\ state["L1"].mapid.obj = "A"

\* C18: when the getMap call of an updateState call resolves after a later
\* updateState call of the same layer has already passed its own
\* _updateEEVisParams, the older response is written all the same: mapid,
\* urlFormat and renderMethod become those of the older request, and if the
\* layer's handle has changed since, the mapid is not the one of the
\* layer's handle.
C18_StaleResponseWins ==
  [][\A c \in DOMAIN cycles :
       LET l == cycles[c].layer
           req == cycles[c].req
       IN ( /\ cycles[c].pc = "getMap"
            /\ cycles'[c].pc = "afterVisParams"
            /\ \E d \in DOMAIN cycles :
                 /\ d > c
                 /\ cycles[d].layer = l
                 /\ cycles[d].pc \in {"afterVisParams", "done"} )
          => /\ state'[l].mapid = MapIdOf(req.eeObject, req.visParams)
             /\ state'[l].urlFormat = UrlFormatOf(req.eeObject, req.visParams)
             /\ state'[l].renderMethod = req.renderMethod
             /\ req.eeObject.id # state'[l].eeObject.id =>
                  state'[l].mapid # MapIdOf(state'[l].eeObject, props[l].visParams)]_vars

\* C18 witness: two calls, for the ee.Image A and then for the
\* FeatureCollection F, have both completed; the layer holds the handle F
\* with the mapid of A, in the renderMethod of the first call.
C18_Witness ==
  /\ Len(cycles) = 2
  /\ cycles[1].pc = "done" /\ cycles[2].pc = "done"
  /\ props["L1"].eeObject = EEObj("F", "FeatureCollection")
  /\ props["L1"].animate
  /\ state["L1"].eeObject = [id |-> "F", kind |-> "ImageCollection"]
  /\ state["L1"].mapid.obj = "A"
  /\ state["L1"].renderMethod = "imageTiles"

\* C19: a cycle whose _updateEEVisParams gets past its early returns (the
\* visParams changed or dataChanged is set, and the handle is not null) with
\* a handle that has no getMap ends rejected with the getMap error in that
\* very step, whatever animate is: it has issued no call, mapid, urlFormat
\* and renderMethod are as before, and it takes no step afterwards.
C19_HandleNeedsGetMap ==
  [][/\ \A c \in DOMAIN cycles :
          LET l == cycles[c].layer
              h == state'[l].eeObject
          IN ( /\ cycles[c].pc = "afterToken"
               /\ cycles'[c].pc # "afterToken"
               /\ cycles'[c].err # "fromJSON"
               /\ ~VisParamsUnchanged(cycles[c].props, cycles[c].oldProps,
                                       cycles[c].dataChanged)
               /\ Truthy(h)
               /\ ~HasGetMap(h) )
             => /\ cycles'[c].pc = "rejected"
                /\ cycles'[c].err = "getMap method"
                /\ cycles'[c].req = NoReq
                /\ initCalls' = initCalls
                /\ state'[l].mapid = state[l].mapid
                /\ state'[l].urlFormat = state[l].urlFormat
                /\ state'[l].renderMethod = state[l].renderMethod
     /\ \A c \in DOMAIN cycles :
          (cycles[c].pc = "rejected" /\ cycles[c].err = "getMap method")
          => cycles'[c] = cycles[c]]_vars

\* C19 witness: an ee.Geometry given with animate false and kept with
\* animate true and new visParams was refused both times.
C19_Witness ==
  /\ Len(cycles) = 2
  /\ \A c \in 1..2 : cycles[c].pc = "rejected" /\ cycles[c].err = "getMap method"
  /\ props["L1"].eeObject = EEObj("G", "Geometry")
  /\ props["L1"].animate
  /\ state["L1"].eeObject = [id |-> "G", kind |-> "Geometry"]
  /\ state["L1"].mapid = UndefMapId

\* C20: the step in which an updateState call runs _animate while
\* state.nFrames is unset or zero changes no layer state at all; and
\* state.frame changes in no other step than the one in which an updateState
\* call of that layer runs _animate after its _updateEEVisParams: in no step
\* of a getTileData call and in no step of its own.
C20_AnimateOnlyAtCycleEnd ==
  [][/\ \A c \in DOMAIN cycles :
          ( /\ cycles[c].pc = "afterVisParams"
            /\ cycles'[c].pc = "done"
            /\ NoFrames(state[cycles[c].layer].nFrames) )
          => state' = state
     /\ \A l \in AllLayers :
          state'[l].frame # state[l].frame =>
            /\ tiles' = tiles
            /\ ~NoFrames(state[l].nFrames)
            /\ \E c \in DOMAIN cycles :
                 /\ cycles[c].layer = l
                 /\ cycles[c].pc = "afterVisParams"
                 /\ cycles'[c].pc = "done"]_vars

\* C20 witness: two updates have run _animate; the tile loaded in between
\* has two frames, its slices are still pending, and the layer is at frame 1.
C20_Witness ==
  /\ Len(cycles) = 3
  /\ cycles[2].pc = "done" /\ cycles[3].pc = "done"
  /\ Len(tiles) = 1 /\ tiles[1].pc = "slices"
  /\ state["L1"].nFrames = [n |-> 2, rem |-> 0]
  /\ state["L1"].frame = 1

\* C21: whenever a getTileData call dispatches to getFilmstripTileData, the
\* handle in the layer's state at that moment has getFilmstripThumbURL --
\* also when a later cycle has already stored its handle and its getMap has
\* not yet answered.
C21_FilmstripHandleHasThumbURL ==
  [][\A t \in DOMAIN tiles' :
       (t \notin DOMAIN tiles /\ tiles'[t].method = "filmstrip")
         => HasGetFilmstripThumbURL(state[tiles'[t].layer].eeObject)]_vars

\* C21 witness: a getTileData call has dispatched to getFilmstripTileData
\* with an ee.ImageCollection in the layer's state and waits for its url.
C21_Witness ==
  /\ Len(tiles) >= 1
  /\ tiles[1].method = "filmstrip"
  /\ tiles[1].pc = "getFilmstripThumbURL"
  /\ HasGetFilmstripThumbURL(tiles[1].eeObject)
  /\ state["L1"].renderMethod = "filmstrip"

\* the TileLayer of layer l renders tile t: the layer has a map id and the
\* tile's getTileData call has returned an array of frames
Rendered(l, t) ==
  /\ renderLayers(state[l]).tileLayer
  /\ tiles[t].layer = l
  /\ tiles[t].pc = "done"
  /\ ~tiles[t].null

\* C22: the frame index renderLayers hands to the TileLayer is a valid index
\* into the frames of every tile that is rendered (frame < the length of the
\* tile's data), whatever cycles and tile fetches came before.
C22_FrameIndexesEveryTile ==
  \A l \in AllLayers : \A t \in DOMAIN tiles :
    Rendered(l, t) => renderLayers(state[l]).frame < Len(tiles[t].data)

\* C22 witness: the layer is at frame 1 and renders a tile of two frames.
C22_Witness ==
  /\ Len(tiles) >= 1
  /\ Rendered("L1", 1)
  /\ Len(tiles[1].data) = 2
  /\ renderLayers(state["L1"]).frame = 1

\* layer l has completed a cycle and none is in flight: its latest
\* updateState call has returned and every earlier one has returned or thrown
CycleCompleted(l) ==
  /\ \E c \in DOMAIN cycles : cycles[c].layer = l
  /\ \A c \in DOMAIN cycles :
       cycles[c].layer = l =>
         /\ cycles[c].pc \in {"done", "rejected"}
         /\ (\A d \in DOMAIN cycles : cycles[d].layer = l => d <= c)
              => cycles[c].pc = "done"

\* C23: after any completed cycle the descriptor in the layer's state
\* belongs to the handle in it: with state.eeObject null there is none
\* (mapid and urlFormat are unset, so no TileLayer is rendered), and with a
\* handle, mapid and urlFormat are what getMap answered for that handle.
C23_DescriptorOfCurrentHandle ==
  \A l \in AllLayers :
    CycleCompleted(l) =>
      IF Truthy(state[l].eeObject)
      THEN /\ state[l].mapid.obj = state[l].eeObject.id
           /\ state[l].urlFormat.mapid = state[l].mapid
      ELSE /\ state[l].mapid = UndefMapId
           /\ state[l].urlFormat = UndefUrlFormat
           /\ ~renderLayers(state[l]).tileLayer

\* C23 witness: two cycles have completed, the second with another handle
\* than the first, and the descriptor is the one getMap answered for it.
C23_Witness ==
  /\ Len(cycles) = 2
  /\ CycleCompleted("L1")
  /\ cycles[1].pc = "done"
  /\ state["L1"].eeObject = [id |-> "B", kind |-> "ImageCollection"]
  /\ state["L1"].mapid = MapIdOf(state["L1"].eeObject, props["L1"].visParams)
  /\ state["L1"].urlFormat = UrlFormatOf(state["L1"].eeObject, props["L1"].visParams)
  /\ props["L1"].visParams = Vis("v2", "b")

====
